---- MODULE Spec2Model ----
(***************************************************************************)
(* Model of gsc_bulk_indexer: BulkIndexer (indexer.py), Indexer (gsc.py)   *)
(* and StatusCache (utils.py).                                             *)
(*                                                                         *)
(* A Python dict that is iterated (the cache mapping, _status_urls_map) is *)
(* a sequence of entries [k |-> key, v |-> value] in insertion order.  A   *)
(* state dict (the record of one URL) is a function from its keys to its   *)
(* values; the empty dict is <<>>.  Times are whole days.                  *)
(***************************************************************************)
EXTENDS Integers, Sequences, FiniteSets, TLC

\* ---------------------------------------------------------------- bounds
MaxUrls == 2          \* URLs of the site are 1..MaxUrls
MaxLen == 2           \* longest explicit URL list / sitemap
MaxRuns == 2          \* index() calls on one BulkIndexer
MaxTicks == 1         \* days the clock may advance after construction
BatchUrls == 23       \* URL count of the batching scenario
QuotaExtra == 2       \* the quota scenario has up to REQUEST_QUOTA + QuotaExtra URLs
MaxSkew == 2          \* record ages go up to cache_timeout + MaxSkew days

\* ------------------------------------------------------ program constants
REQUEST_QUOTA == 200
batch_size == 10
cache_timeout == 14

None == "None"        \* Python None where a status is expected
NoTime == -1          \* Python None where a time is expected
EmptyDict == <<>>

INDEXABLE_STATUSES ==
    { "Discovered - currently not indexed",
      "Crawled - currently not indexed",
      "URL is unknown to Google",
      "Forbidden",
      "Error" }

\* ------------------------------------------------------------ dict helpers
HasKey(d, key) == \E i \in 1..Len(d) : d[i].k = key

DictGetOr(d, key, default) ==
    IF HasKey(d, key)
      THEN d[CHOOSE i \in 1..Len(d) : d[i].k = key].v
      ELSE default

DictSet(d, key, val) ==
    IF HasKey(d, key)
      THEN [i \in 1..Len(d) |->
              IF d[i].k = key THEN [k |-> key, v |-> val] ELSE d[i]]
      ELSE Append(d, [k |-> key, v |-> val])

Keys(d) == [i \in 1..Len(d) |-> d[i].k]

KeySet(d) == {d[i].k : i \in 1..Len(d)}

\* state.get(key) of a state dict
StateGet(state, key, default) ==
    IF key \in DOMAIN state THEN state[key] ELSE default

\* current_state.update(new): keys of new overwrite, the others stay
Update(state, new) == new @@ state

\* self._status_urls_map.setdefault(status, []).append(url)
MapAppend(m, status, url) ==
    DictSet(m, status, Append(DictGetOr(m, status, <<>>), url))

Range(s) == {s[i] : i \in 1..Len(s)}

RECURSIVE Flatten(_)
Flatten(ss) == IF ss = <<>> THEN <<>> ELSE Head(ss) \o Flatten(Tail(ss))

\* ------------------------------------------------------- gsc.py: Indexer
\* An answer of the URL inspection API: the HTTP code, and for a 200 the
\* coverageState and lastCrawlTime of the body (None / NoTime when absent).
\* Code 0 stands for no answer at all: the request raises in the client.
Resp200(coverage, crawl) == [code |-> 200, coverage |-> coverage, crawl |-> crawl]
Resp403 == [code |-> 403, coverage |-> None, crawl |-> NoTime]
Resp500 == [code |-> 500, coverage |-> None, crawl |-> NoTime]
NetFail == [code |-> 0, coverage |-> None, crawl |-> NoTime]

\* session.post raises (no try/except in get_indexing_status)
probe_raises(resp) == resp.code = 0

\* Indexer.get_indexing_status, for an answer that does not raise; t is utcnow()
get_indexing_status(resp, t) ==
    IF resp.code = 200
      THEN [status |-> resp.coverage,
            last_crawled_at |-> resp.crawl,
            last_checked |-> t]
      ELSE IF resp.code = 403
        THEN [status |-> "Forbidden", last_crawled_at |-> NoTime]
        ELSE [status |-> "Error", last_crawled_at |-> NoTime]

is_indexable(status) == status \in INDEXABLE_STATUSES

\* Indexer._parse_notification_status; json carries the notifyTime of
\* latestUpdate and of latestRemove (NoTime when the member is absent)
parse_notification_status(json) ==
    IF json.latestUpdate # NoTime
      THEN [last_notified_at |-> json.latestUpdate]
      ELSE IF json.latestRemove # NoTime
        THEN [last_notified_at |-> json.latestRemove]
        ELSE [last_notified_at |-> NoTime]

\* ---------------------------------------------------- utils.py: StatusCache
\* The keys a state dict may have, in the order the pickle writes them.
FieldNames == <<"status", "last_crawled_at", "last_checked", "last_notified_at">>

\* a pickle that writes None for the keys a state dict does not have
pickle_state_filled(state) ==
    [i \in 1..Len(FieldNames) |->
        <<TRUE, IF FieldNames[i] \in DOMAIN state
                  THEN state[FieldNames[i]] ELSE NoTime>>]

\* pickle of one state dict: for each field whether it is present, and its value
pickle_state(state) ==
    [i \in 1..Len(FieldNames) |->
        IF FieldNames[i] \in DOMAIN state
          THEN <<TRUE, state[FieldNames[i]]>>
          ELSE <<FALSE>>]

\* the state dict a pickle holds
unpickle_state(bytes) ==
    [f \in {FieldNames[i] : i \in {j \in 1..Len(bytes) : bytes[j][1]}} |->
        bytes[CHOOSE i \in 1..Len(bytes) : FieldNames[i] = f][2]]

\* pickle.dump(self._status, f) and pickle.load(f)
pickle_dump(mapping) ==
    [i \in 1..Len(mapping) |->
        [k |-> mapping[i].k, v |-> pickle_state(mapping[i].v)]]

pickle_load(bytes) ==
    [i \in 1..Len(bytes) |->
        [k |-> bytes[i].k, v |-> unpickle_state(bytes[i].v)]]

\* The file of the site: exists or not, and the pickled mapping it holds.
NoFile == [exists |-> FALSE, data |-> <<>>]
FileOf(mapping) == [exists |-> TRUE, data |-> pickle_dump(mapping)]

\* StatusCache.load: the pair (_status, _loaded) after the call
load(st, ld, f) ==
    IF ld THEN [status |-> st, loaded |-> ld]
    ELSE IF f.exists THEN [status |-> pickle_load(f.data), loaded |-> TRUE]
    ELSE [status |-> st, loaded |-> ld]

\* str.replace on a string given as its characters
RECURSIVE replace(_, _, _)
replace(s, old, new) ==
    IF Len(s) < Len(old) THEN s
    ELSE IF SubSeq(s, 1, Len(old)) = old
      THEN new \o replace(SubSeq(s, Len(old) + 1, Len(s)), old, new)
      ELSE <<Head(s)>> \o replace(Tail(s), old, new)

\* str.strip(c)
RECURSIVE strip(_, _)
strip(s, c) ==
    IF s = <<>> THEN s
    ELSE IF Head(s) = c THEN strip(Tail(s), c)
    ELSE IF s[Len(s)] = c THEN strip(SubSeq(s, 1, Len(s) - 1), c)
    ELSE s

\* StatusCache._get_cache_file_path: the file name for a site URL
get_cache_file_path(site_url) ==
    LET a == replace(site_url, <<":", "/", "/">>, <<"_">>)
        b == strip(a, "/")
        c == replace(b, <<"/">>, <<"_">>)
        d == replace(c, <<".">>, <<"_">>)
        e == replace(d, <<":">>, <<"_">>)
        f == replace(e, <<"-">>, <<"_">>)
    IN  <<".cache", "/">> \o f \o <<".pkl">>

\* a cache that writes the file through on every __setitem__
file_after_setitem_through(f, st) == FileOf(st)

\* StatusCache.__setitem__: the file after the call to it that left the
\* mapping st in memory; only _status is written
file_after_setitem(f, st) == f

\* StatusCache.dump: the file after the call
dump(st) == FileOf(st)

\* StatusCache subclasses dict and redefines __getitem__ and __setitem__ over
\* _status; get() is dict's own and reads the dict part of the object, which
\* nothing ever writes.
StatusCacheDictPart == <<>>

\* self._cache.get(url) or {} ; with use_cache False the cache is a plain dict
cache_get(uc, st, url) ==
    IF uc THEN DictGetOr(StatusCacheDictPart, url, EmptyDict)
          ELSE DictGetOr(st, url, EmptyDict)

\* self._cache[url] = value (StatusCache.__setitem__ or dict's)
cache_set(st, url, value) == DictSet(st, url, value)

\* ------------------------------------------------ indexer.py: BulkIndexer
\* the recheck decision with a record of exactly cache_timeout days stale
should_check_indexing_status_at_timeout(uc, state, t) ==
    IF ~uc THEN TRUE
    ELSE IF state = EmptyDict THEN TRUE
    ELSE LET last_checked == StateGet(state, "last_checked", NoTime)
         IN  \/ is_indexable(StateGet(state, "status", None))
             \/ last_checked = NoTime
             \/ t - last_checked >= cache_timeout

\* BulkIndexer._should_check_indexing_status; t is utcnow()
should_check_indexing_status(uc, state, t) ==
    IF ~uc THEN TRUE
    ELSE IF state = EmptyDict THEN TRUE
    ELSE LET index_status == StateGet(state, "status", None)
             should_index == is_indexable(index_status)
             last_checked == StateGet(state, "last_checked", NoTime)
             stale == IF last_checked = NoTime THEN TRUE
                      ELSE t - last_checked > cache_timeout
         IN  should_index \/ stale

\* BulkIndexer._collect_urls_for_submission
RECURSIVE collect_urls_for_submission(_)
collect_urls_for_submission(m) ==
    IF m = <<>> THEN <<>>
    ELSE (IF is_indexable(Head(m).k) THEN Head(m).v ELSE <<>>)
         \o collect_urls_for_submission(Tail(m))

\* chunks one URL longer than batch_size
zip_longest_chunk_wide(us, p) ==
    [i \in 1..(batch_size + 1) |->
        IF p + i - 1 <= Len(us) THEN us[p + i - 1] ELSE 0]

\* for url_batch in zip_longest(*[iter(urls)] * batch_size): the chunk that
\* starts at position p, padded with None (0) to batch_size
Pad == 0
zip_longest_chunk(us, p) ==
    [i \in 1..batch_size |-> IF p + i - 1 <= Len(us) THEN us[p + i - 1] ELSE Pad]

\* list(filter(None, url_batch))
filter_none(chunk) == SelectSeq(chunk, LAMBDA u : u # Pad)

\* BulkIndexer._check_indexing_status, the else branch of its loop: the URLs
\* that are not rechecked go to the bucket of their cached status
RECURSIVE bucket_cached(_, _, _, _)
bucket_cached(uc, st, m, us) ==
    IF us = <<>> THEN m
    ELSE LET current_state == cache_get(uc, st, Head(us))
             status == StateGet(current_state, "status", None)
         IN  bucket_cached(uc, st, MapAppend(m, status, Head(us)), Tail(us))

\* BulkIndexer._batched_check_indexing_status, the loop over
\* zip(url_batch, current_states) from position i on: the cache mapping and
\* the bucket map after it
RECURSIVE apply_batch(_, _, _, _, _, _)
apply_batch(uc, st, m, b, res, i) ==
    IF i > Len(b) THEN [status |-> st, map |-> m]
    ELSE LET url == b[i]
             state == res[i]
             current_state == Update(cache_get(uc, st, url), state)
             status == StateGet(state, "status", None)
         IN  apply_batch(uc, cache_set(st, url, current_state),
                         MapAppend(m, status, url), b, res, i + 1)

\* ------------------------------------------------------------------ state
VARIABLES
    use_cache,        \* BulkIndexer._use_cache
    use_cached_urls,  \* BulkIndexer._use_cached_urls
    urls,             \* BulkIndexer._urls
    sitemaps,         \* BulkIndexer._sitemaps (indexes into site_sitemaps)
    status,           \* the mapping behind self._cache[...] (StatusCache._status)
    loaded,           \* StatusCache._loaded
    status_urls_map,  \* BulkIndexer._status_urls_map
    num_submitted,    \* BulkIndexer._num_submitted
    property,         \* whether a property was given to the constructor
    cache_dir,        \* whether the .cache directory exists
    pc,               \* new and failed (the constructor), then where index() is:
                      \* idle, probing, checked, submitting, done, raised
    exc,              \* what was raised: none, ValueError, sitemaps, probe
    ret,              \* the value the last index() returned
    to_recheck,       \* local of _check_indexing_status
    pos,              \* start of the next chunk of to_recheck
    batch,            \* url_batch of the batch in flight
    pending,          \* positions of batch whose probe has not returned
    results,          \* position -> state of the probes that returned
    to_submit,        \* urls of _request_indexing
    sub_i,            \* position of its loop
    file,             \* the cache file of the site
    inspect,          \* url -> answers the inspection API may give for it
    notify_api,       \* conditions the notification API may be in at a call
    notified,         \* url -> notifyTime the notification API holds (NoTime: none)
    site_sitemaps,    \* the sitemaps registered for the property, as URL lists
    now,              \* utcnow(), in days
    fn_args,          \* arguments a function is applied to on its own
    fn_result,        \* what it returned
    run,              \* history: index() calls so far
    hist              \* history of the current index() call

vars == << use_cache, use_cached_urls, urls, sitemaps, status, loaded,
           status_urls_map, num_submitted, pc, exc, ret, to_recheck, pos,
           batch, pending, results, to_submit, sub_i, file, inspect,
           notify_api, notified, site_sitemaps, now, run, hist,
           property, cache_dir, fn_args, fn_result >>

config == << use_cache, use_cached_urls, inspect, notify_api, site_sitemaps,
             property, cache_dir, fn_args, fn_result >>
probing == << to_recheck, pos, batch, pending, results >>
submitting == << to_submit, sub_i >>

NowInit == cache_timeout + 1

\* history of a call that has just begun, snapshot being the mapping it loaded
NewHist(snapshot) ==
    [ after |-> pc,          \* how the call before ended (idle: there was none)
      dir |-> cache_dir,     \* whether .cache existed when the call began
      resolved |-> "none",   \* how URL resolution ended: urls, empty, raised
      calls |-> <<>>,        \* API calls of the last pass of _request_indexing
      fetched |-> 0,         \* sitemaps whose content was requested
      snapshot |-> snapshot, \* the cache mapping after load()
      probed |-> {},         \* URLs get_indexing_status was called for
      batches |-> <<>>,      \* the batches probed, in order
      applied |-> 0,         \* probe results written to cache and bucket
      seen |-> {},           \* <<url, status>> this call obtained
      dumps |-> 0,           \* dump() calls
      looked_up |-> {},      \* URLs get_notification_status was called for
      attempts |-> 0,        \* request_indexing calls
      successes |-> 0,       \* request_indexing calls that returned
      over_quota |-> 0,      \* request_indexing calls made with the count above the quota
      warnings |-> 0,        \* quota warnings logged
      notif_written |-> {} ] \* URLs whose notification result was written

\* ------------------------------------------------------------------- Init
Urls == 1..MaxUrls

UrlLists(n) == UNION {[1..k -> Urls] : k \in 0..n}

RECURSIVE Ascending(_)
Ascending(S) ==
    IF S = {} THEN <<>>
    ELSE LET m == CHOOSE x \in S : \A y \in S : x <= y
         IN  <<m>> \o Ascending(S \ {m})

\* the mapping with the entries of function f, keys ascending
MappingOf(f) ==
    LET ks == Ascending(DOMAIN f)
    IN  [i \in 1..Len(ks) |-> [k |-> ks[i], v |-> f[ks[i]]]]

\* answers of the inspection API
ProbeAnswers ==
    { Resp200("Indexed", 0),
      Resp200("URL is unknown to Google", NoTime),
      Resp403, Resp500, NetFail }

\* records an earlier process left in the file: probe results, one checked
\* the day before construction and one that met a 403
FileRecords ==
    { get_indexing_status(Resp200("Indexed", 0), NowInit - 1),
      get_indexing_status(Resp403, 0) }

Files ==
    {NoFile} \cup
    UNION { {FileOf(MappingOf(f)) : f \in [K -> FileRecords]} :
            K \in (SUBSET Urls) \ {{}} }

\* no sitemap, one sitemap of at most one URL, or one sitemap for each URL
SitemapChoices ==
    {<<>>} \cup {<<l>> : l \in UrlLists(1)}
           \cup {[u \in Urls |-> <<u>>]}

\* BulkIndexer.__init__ lines 54-61, and the locals of index() before a call
Fields ==
    /\ sitemaps = <<>>
    /\ status = <<>>
    /\ loaded = FALSE
    /\ status_urls_map = <<>>
    /\ num_submitted = 0
    /\ exc = "none"
    /\ ret = 0
    /\ to_recheck = <<>>
    /\ pos = 1
    /\ batch = <<>>
    /\ pending = {}
    /\ results = <<>>
    /\ to_submit = <<>>
    /\ sub_i = 1
    /\ run = 0

\* the program once __init__ returned: a property is given when (at least)
\* there is no URL list, and the StatusCache made the .cache directory
Object(us, uc, ucu) ==
    /\ property = (us = <<>>)
    /\ cache_dir = uc
    /\ use_cache = uc
    /\ use_cached_urls = ucu
    /\ urls = us
    /\ Fields
    /\ pc = "idle"
    /\ hist = NewHist(<<>>)

\* the constructed program, no function being applied on its own
Constructed(us, uc, ucu) ==
    /\ Object(us, uc, ucu)
    /\ fn_args = <<>>
    /\ fn_result = <<>>

Init ==
    /\ \E uc \in BOOLEAN, ucu \in BOOLEAN, us \in UrlLists(MaxLen) :
          /\ us # <<>> => ~ucu
          /\ Constructed(us, uc, ucu)
          /\ site_sitemaps \in (IF us = <<>> THEN SitemapChoices ELSE {<<>>})
          /\ file \in (IF uc THEN Files ELSE {NoFile})
    /\ inspect = [u \in Urls |-> ProbeAnswers]
    /\ notify_api = {"up", "lookup_down", "down"}
    /\ notified \in {[u \in Urls |-> NoTime],
                     [u \in Urls |-> IF u = 1 THEN 0 ELSE NoTime]}
    /\ now = NowInit

\* ---------------------------------------------------------------- actions
\* index() returns value
Return(value) ==
    /\ pc' = "done"
    /\ ret' = value
    /\ exc' = "none"

\* an exception leaves index()
Raise(src) ==
    /\ pc' = "raised"
    /\ exc' = src
    /\ ret' = ret

\* index() without the check for an empty URL list
no_urls_unchecked(us) == FALSE

\* "if not self._urls" of index(), lines 81 and 75: nothing to check
no_urls(us) == us = <<>>

\* index() from line 81 on and _check_indexing_status up to line 168, once
\* the cache is loaded (ld) and the URLs are resolved (us)
Classify(us, ld, n) ==
    LET recheck == SelectSeq(us, LAMBDA u :
                     should_check_indexing_status(
                         use_cache, cache_get(use_cache, ld.status, u), now))
        cached == SelectSeq(us, LAMBDA u :
                     ~should_check_indexing_status(
                         use_cache, cache_get(use_cache, ld.status, u), now))
        h == [NewHist(ld.status) EXCEPT
                !.resolved = IF Len(us) = 0 THEN "empty" ELSE "urls",
                !.fetched = n]
    IN  /\ urls' = us
        /\ status' = ld.status
        /\ loaded' = ld.loaded
        /\ run' = run + 1
        /\ UNCHANGED << config, file, notified, now, num_submitted, submitting >>
        /\ batch' = <<>>
        /\ pending' = {}
        /\ results' = <<>>
        /\ pos' = 1
        /\ IF no_urls(us)
             THEN /\ Return(0)
                  /\ to_recheck' = to_recheck
                  /\ status_urls_map' = status_urls_map
                  /\ hist' = h
             ELSE /\ to_recheck' = recheck
                  /\ status_urls_map' =
                         bucket_cached(use_cache, ld.status, status_urls_map, cached)
                  /\ hist' = [h EXCEPT !.seen =
                         {<<u, StateGet(cache_get(use_cache, ld.status, u),
                                        "status", None)>> : u \in Range(cached)}]
                  /\ pc' = IF recheck = <<>> THEN "checked" ELSE "probing"
                  /\ exc' = "none"
                  /\ ret' = ret

\* index() raises while it resolves the URLs, having set _urls to us
RaiseResolving(us, sms, ld, n) ==
    /\ Raise("sitemaps")
    /\ urls' = us
    /\ sitemaps' = sms
    /\ status' = ld.status
    /\ loaded' = ld.loaded
    /\ run' = run + 1
    /\ hist' = [NewHist(ld.status) EXCEPT !.resolved = "raised", !.fetched = n]
    /\ UNCHANGED << config, file, notified, now, num_submitted, submitting,
                    probing, status_urls_map >>

\* index(), lines 63-90, with _check_indexing_status up to its first batch
IndexStart ==
    /\ pc \in {"idle", "done", "raised"}
    /\ run < MaxRuns
    /\ LET ld == IF use_cache THEN load(status, loaded, file)
                 ELSE [status |-> status, loaded |-> loaded]
           paths == [i \in 1..Len(site_sitemaps) |-> i]
       IN  IF urls # <<>>
             THEN Classify(urls, ld, 0) /\ sitemaps' = sitemaps
             ELSE \* gsc.get_sitemaps answers 200, or 403 / another code and raises
                  \/ RaiseResolving(urls, sitemaps, ld, 0)
                  \/ /\ paths = <<>>
                     /\ sitemaps' = paths
                     /\ Classify(<<>>, ld, 0)
                  \/ /\ paths # <<>>
                     /\ use_cache /\ use_cached_urls
                     /\ sitemaps' = paths
                     /\ Classify(Keys(ld.status), ld, 0)
                  \/ /\ paths # <<>>
                     /\ ~(use_cache /\ use_cached_urls)
                     /\ sitemaps' = paths
                     /\ Classify(urls \o Flatten(site_sitemaps), ld, Len(paths))
                  \/ \* fetch_sitemap raises at sitemap j, the earlier ones extended _urls
                     /\ paths # <<>>
                     /\ ~(use_cache /\ use_cached_urls)
                     /\ \E j \in 1..Len(paths) :
                          RaiseResolving(
                              urls \o Flatten(SubSeq(site_sitemaps, 1, j - 1)),
                              paths, ld, j)

\* _batched_check_indexing_status: the next batch is put in flight
StartBatch ==
    /\ pc = "probing"
    /\ batch = <<>>
    /\ LET b == filter_none(zip_longest_chunk(to_recheck, pos))
       IN  /\ batch' = b
           /\ pending' = 1..Len(b)
           /\ results' = <<>>
           /\ hist' = [hist EXCEPT !.probed = @ \cup Range(b),
                                   !.batches = Append(@, b)]
    /\ UNCHANGED << config, urls, sitemaps, status, loaded, status_urls_map,
                    num_submitted, pc, exc, ret, to_recheck, pos, submitting,
                    file, notified, now, run >>

\* one get_indexing_status of the batch returns, or raises out of index()
ProbeReturn ==
    /\ pc = "probing"
    /\ \E i \in pending : \E resp \in inspect[batch[i]] :
         IF probe_raises(resp)
           THEN /\ Raise("probe")
                /\ pending' = {}
                /\ batch' = <<>>
                /\ results' = <<>>
           ELSE /\ results' = (i :> get_indexing_status(resp, now)) @@ results
                /\ pending' = pending \ {i}
                /\ UNCHANGED << pc, exc, ret, batch >>
    /\ UNCHANGED << config, urls, sitemaps, status, loaded, status_urls_map,
                    num_submitted, to_recheck, pos, submitting, file, notified,
                    now, run, hist >>

\* the batch is complete: its results go to the cache and the buckets
ApplyBatch ==
    /\ pc = "probing"
    /\ batch # <<>>
    /\ pending = {}
    /\ LET r == apply_batch(use_cache, status, status_urls_map, batch, results, 1)
       IN  /\ status' = r.status
           /\ status_urls_map' = r.map
           /\ file' = file_after_setitem(file, r.status)
    /\ hist' = [hist EXCEPT
                  !.applied = @ + Len(batch),
                  !.seen = @ \cup {<<batch[i], StateGet(results[i], "status", None)>> :
                                     i \in 1..Len(batch)}]
    /\ pos' = pos + batch_size
    /\ batch' = <<>>
    /\ results' = <<>>
    /\ pc' = IF pos + batch_size > Len(to_recheck) THEN "checked" ELSE "probing"
    /\ UNCHANGED << config, urls, sitemaps, loaded, num_submitted, exc, ret,
                    to_recheck, pending, submitting, notified, now, run >>

\* _check_indexing_status lines 169-170, then index() lines 92-101
FinishCheck ==
    /\ pc = "checked"
    /\ file' = IF use_cache THEN dump(status) ELSE file
    /\ hist' = [hist EXCEPT !.dumps = IF use_cache THEN @ + 1 ELSE @]
    /\ LET us == collect_urls_for_submission(status_urls_map)
       IN  IF us = <<>>
             THEN Return(0) /\ UNCHANGED submitting
             ELSE /\ pc' = "submitting"
                  /\ to_submit' = us
                  /\ sub_i' = 1
                  /\ UNCHANGED << exc, ret >>
    /\ UNCHANGED << config, urls, sitemaps, status, loaded, status_urls_map,
                    num_submitted, probing, notified, now, run >>

\* request_indexing called after every lookup, whether or not it failed
request_needed_always(lookup_ok) == TRUE

\* _request_indexing lines 113-127: request_indexing is called in the except
\* branch of the lookup
request_needed(lookup_ok) == ~lookup_ok

\* the count incremented before request_indexing has returned
submitted_count_on_call(count, publish_called, publish_ok) ==
    IF publish_called THEN count + 1 ELSE count

\* _request_indexing lines 127-128: the count after one pass of the loop
submitted_count(count, publish_called, publish_ok) ==
    IF publish_called /\ publish_ok THEN count + 1 ELSE count

\* _request_indexing: one pass of its loop; index() returns after the last
RequestIndexingStep ==
    /\ pc = "submitting"
    /\ \E api \in notify_api :
         LET url == to_submit[sub_i]
             current_state == cache_get(use_cache, status, url)
             lookup_ok == api = "up" /\ notified[url] # NoTime
             publish_called == request_needed(lookup_ok)
             publish_ok == publish_called /\ api # "down"
             json == [latestUpdate |-> IF publish_ok THEN now ELSE notified[url],
                      latestRemove |-> NoTime]
             got == lookup_ok \/ publish_ok
             count == submitted_count(num_submitted, publish_called, publish_ok)
         IN  /\ notified' = IF publish_ok THEN [notified EXCEPT ![url] = now]
                            ELSE notified
             /\ num_submitted' = count
             /\ status' = IF got
                            THEN cache_set(status, url,
                                   Update(current_state, parse_notification_status(json)))
                            ELSE status
             /\ file' = IF got THEN file_after_setitem(file, status') ELSE file
             /\ hist' = [hist EXCEPT
                   !.looked_up = @ \cup {url},
                   !.calls =
                       <<[op |-> "get_notification_status", ok |-> lookup_ok]>> \o
                       (IF publish_called
                          THEN <<[op |-> "request_indexing", ok |-> publish_ok]>>
                          ELSE <<>>),
                   !.attempts = IF publish_called THEN @ + 1 ELSE @,
                   !.successes = IF publish_ok THEN @ + 1 ELSE @,
                   !.over_quota = IF publish_called /\ num_submitted > REQUEST_QUOTA
                                    THEN @ + 1 ELSE @,
                   !.warnings = IF count > REQUEST_QUOTA THEN @ + 1 ELSE @,
                   !.notif_written = IF got THEN @ \cup {url} ELSE @]
             /\ IF sub_i = Len(to_submit)
                  THEN Return(count) /\ sub_i' = sub_i
                  ELSE sub_i' = sub_i + 1 /\ UNCHANGED << pc, exc, ret >>
    /\ UNCHANGED << config, urls, sitemaps, loaded, status_urls_map, probing,
                    to_submit, now, run >>

\* a day passes between two calls of index()
Tick ==
    /\ pc \in {"idle", "done", "raised"}
    /\ now < NowInit + MaxTicks
    /\ now' = now + 1
    /\ UNCHANGED << config, urls, sitemaps, status, loaded, status_urls_map,
                    num_submitted, pc, exc, ret, probing, submitting, file,
                    notified, run, hist >>

Next ==
    \/ IndexStart
    \/ StartBatch
    \/ ProbeReturn
    \/ ApplyBatch
    \/ FinishCheck
    \/ RequestIndexingStep
    \/ Tick

Spec == Init /\ [][Next]_vars

\* ------------------------------------------------- scenario specifications
\* BulkIndexer(urls = 1..n) with caching, no cache file, nothing notified
Scenario(n) ==
    /\ Constructed([i \in 1..n |-> i], TRUE, FALSE)
    /\ site_sitemaps = <<>>
    /\ file = NoFile
    /\ notified = [u \in 1..n |-> NoTime]
    /\ now = NowInit

\* Quota scenario: more URLs than the quota, every one answers a 500 to the
\* inspection (status "Error"), none was notified, the notification API is up
InitQuota ==
    \E n \in (REQUEST_QUOTA + 1)..(REQUEST_QUOTA + QuotaExtra) :
        /\ Scenario(n)
        /\ inspect = [u \in 1..n |-> {Resp500}]
        /\ notify_api = {"up"}

NextQuota ==
    \/ IndexStart
    \/ StartBatch
    \/ ProbeReturn
    \/ ApplyBatch
    \/ FinishCheck
    \/ RequestIndexingStep

SpecQuota == InitQuota /\ [][NextQuota]_vars

\* Batching scenario: up to BatchUrls URLs, each indexed upstream unless its
\* inspection request fails in the client
InitBatch ==
    \E n \in 1..BatchUrls :
        /\ Scenario(n)
        /\ inspect = [u \in 1..n |-> {Resp200("Indexed", 0), NetFail}]
        /\ notify_api = {"up"}

NextBatch ==
    \/ IndexStart
    \/ StartBatch
    \/ ProbeReturn
    \/ ApplyBatch
    \/ FinishCheck

SpecBatch == InitBatch /\ [][NextBatch]_vars

\* No upstream change: each URL has one answer of the inspection API, and the
\* notification API is in one condition, for the whole behaviour; no time passes
InitStable ==
    /\ \E uc \in BOOLEAN, us \in UrlLists(MaxLen) \ {<<>>} :
          /\ Constructed(us, uc, FALSE)
          /\ file \in (IF uc THEN Files ELSE {NoFile})
    /\ site_sitemaps = <<>>
    /\ inspect \in [Urls -> {{a} : a \in ProbeAnswers}]
    /\ notify_api \in {{"up"}, {"down"}}
    /\ notified \in {[u \in Urls |-> NoTime],
                     [u \in Urls |-> IF u = 1 THEN 0 ELSE NoTime]}
    /\ now = NowInit

NextStable ==
    \/ IndexStart
    \/ StartBatch
    \/ ProbeReturn
    \/ ApplyBatch
    \/ FinishCheck
    \/ RequestIndexingStep

SpecStable == InitStable /\ [][NextStable]_vars

\* The constructor: BulkIndexer(property, urls, use_cache) is yet to be
\* called; the .cache directory exists or not; the inspection answers 200 or
\* 500 and the notification API is up.
InitNew ==
    /\ \E prop \in BOOLEAN, us \in UrlLists(MaxLen), uc \in BOOLEAN,
          dir \in BOOLEAN :
          /\ property = prop
          /\ cache_dir = dir
          /\ use_cache = uc
          /\ use_cached_urls = FALSE
          /\ urls = us
          /\ site_sitemaps \in (IF prop THEN SitemapChoices ELSE {<<>>})
          /\ file \in (IF dir THEN {NoFile, FileOf(MappingOf([u \in {1} |->
                          get_indexing_status(Resp403, 0)]))}
                      ELSE {NoFile})
    /\ Fields
    /\ pc = "new"
    /\ hist = NewHist(<<>>)
    /\ fn_args = <<>>
    /\ fn_result = <<>>
    /\ inspect = [u \in Urls |-> {Resp200("Indexed", 0), Resp500}]
    /\ notify_api = {"up"}
    /\ notified = [u \in Urls |-> NoTime]
    /\ now = NowInit

\* __init__ lines 40-41: neither a property nor a non-empty URL list
init_raises(prop, us) == ~prop /\ us = <<>>

\* a constructor that makes the StatusCache before it validates its arguments
init_cache_dir_eager(prop, us, uc, dir) == IF uc THEN TRUE ELSE dir

\* whether .cache exists after __init__: StatusCache.__init__ makes it
\* (_get_cache_file_path), and is reached only past the ValueError
init_cache_dir(prop, us, uc, dir) ==
    IF init_raises(prop, us) THEN dir
    ELSE IF uc THEN TRUE ELSE dir

\* BulkIndexer.__init__
Construct ==
    /\ pc = "new"
    /\ cache_dir' = init_cache_dir(property, urls, use_cache, cache_dir)
    /\ IF init_raises(property, urls)
         THEN pc' = "failed" /\ exc' = "ValueError"
         ELSE pc' = "idle" /\ exc' = exc
    /\ UNCHANGED << use_cache, use_cached_urls, urls, sitemaps, status, loaded,
                    status_urls_map, num_submitted, ret, probing, submitting,
                    file, inspect, notify_api, notified, site_sitemaps, now,
                    run, hist, property, fn_args, fn_result >>

NextNew ==
    \/ Construct
    \/ IndexStart
    \/ StartBatch
    \/ ProbeReturn
    \/ ApplyBatch
    \/ FinishCheck
    \/ RequestIndexingStep

SpecNew == InitNew /\ [][NextNew]_vars

\* Functions on their own: _should_check_indexing_status on a state dict at
\* a time, and dump() followed by load() of a fresh StatusCache of the site.
Restrict(f, F) == [k \in F |-> f[k]]

\* state dicts: any subset of the keys, over the values given for each key
StateDicts(full) ==
    {Restrict(r, F) : r \in full, F \in SUBSET Range(FieldNames)}

NowPure == cache_timeout + MaxSkew

RecheckStates ==
    StateDicts([status : {"Indexed", "Forbidden", None,
                          "Discovered - currently not indexed"},
                last_crawled_at : {NoTime},
                last_checked : 0..NowPure,
                last_notified_at : {0}])

RoundTripStates ==
    StateDicts([status : {"Indexed"},
                last_crawled_at : {NoTime, 0},
                last_checked : {NowInit},
                last_notified_at : {NowInit}])

RoundTripMappings ==
    UNION { {MappingOf(f) : f \in [K -> RoundTripStates]} : K \in SUBSET Urls }

\* site URLs, as their characters: https://a-b.c/ and sc-domain:a.c
SiteUrls ==
    { <<"h", "t", "t", "p", "s", ":", "/", "/", "a", "-", "b", ".", "c", "/">>,
      <<"s", "c", "-", "d", "o", "m", "a", "i", "n", ":", "a", ".", "c">> }

PureArgs(fn, uc, state, t, site, mapping) ==
    [fn |-> fn, use_cache |-> uc, state |-> state, now |-> t, site |-> site,
     mapping |-> mapping]

InitPure ==
    /\ Object(<<1>>, TRUE, FALSE)
    /\ site_sitemaps = <<>>
    /\ file = NoFile
    /\ inspect = [u \in Urls |-> {Resp500}]
    /\ notify_api = {"up"}
    /\ notified = [u \in Urls |-> NoTime]
    /\ now = NowPure
    /\ fn_result = <<>>
    /\ \/ \E uc \in BOOLEAN, state \in RecheckStates :
             fn_args = PureArgs("should_check", uc, state, NowPure, <<>>, <<>>)
       \/ \E site \in SiteUrls, mapping \in RoundTripMappings :
             fn_args = PureArgs("dump_load", TRUE, <<>>, NowPure, site, mapping)

\* self._should_check_indexing_status(current_state)
ApplyShouldCheck ==
    /\ fn_args.fn = "should_check"
    /\ fn_result = <<>>
    /\ fn_result' = <<should_check_indexing_status(
                         fn_args.use_cache, fn_args.state, fn_args.now)>>
    /\ UNCHANGED << use_cache, use_cached_urls, urls, sitemaps, status, loaded,
                    status_urls_map, num_submitted, pc, exc, ret, probing,
                    submitting, file, inspect, notify_api, notified,
                    site_sitemaps, now, run, hist, property, cache_dir, fn_args >>

\* dump() of a StatusCache holding the mapping, then load() of a StatusCache
\* just constructed for the same site (_status = {}, _loaded = False), each
\* with the file path it derived from the site URL
ApplyDumpLoad ==
    /\ fn_args.fn = "dump_load"
    /\ fn_result = <<>>
    /\ LET written == [path |-> get_cache_file_path(fn_args.site),
                       file |-> dump(fn_args.mapping)]
           cache_file == get_cache_file_path(fn_args.site)
           found == IF cache_file = written.path THEN written.file ELSE NoFile
       IN  fn_result' = <<load(<<>>, FALSE, found).status>>
    /\ UNCHANGED << use_cache, use_cached_urls, urls, sitemaps, status, loaded,
                    status_urls_map, num_submitted, pc, exc, ret, probing,
                    submitting, file, inspect, notify_api, notified,
                    site_sitemaps, now, run, hist, property, cache_dir, fn_args >>

NextPure ==
    \/ ApplyShouldCheck
    \/ ApplyDumpLoad

SpecPure == InitPure /\ [][NextPure]_vars

\* ----------------------------------------------------------------- claims
\* the record the current call of index() loaded for u is fresh and not
\* indexable: its status is outside the indexable set and it was checked
\* less than cache_timeout days ago
FreshNotIndexable(u) ==
    LET record == DictGetOr(hist.snapshot, u, EmptyDict)
        last_checked == StateGet(record, "last_checked", NoTime)
    IN  /\ HasKey(hist.snapshot, u)
        /\ ~is_indexable(StateGet(record, "status", None))
        /\ last_checked # NoTime
        /\ now - last_checked < cache_timeout

\* C1: with caching enabled, a URL whose loaded record is fresh and not
\* indexable is neither probed nor handled by the submission pass in that run.
C1_FreshCachedUrlLeftAlone ==
    (use_cache /\ run >= 1) =>
        \A u \in Range(urls) :
            FreshNotIndexable(u) =>
                u \notin hist.probed /\ u \notin hist.looked_up

\* C2: in every call of index() on one BulkIndexer, the submission pass
\* handles a URL only if this call obtained an indexable status for it.
C2_SubmittedOnlyIfIndexableNow ==
    \A u \in hist.looked_up :
        \E p \in hist.seen : p[1] = u /\ is_indexable(p[2])

\* C3: no request_indexing call is made once the submitted count is above
\* REQUEST_QUOTA.
C3_NoAttemptOverQuota == hist.over_quota = 0

\* C4: a run over REQUEST_QUOTA + 1 URLs that all need a new submission makes
\* exactly REQUEST_QUOTA request_indexing calls.
C4_QuotaBoundary ==
    (run = 1 /\ pc = "done" /\ Len(urls) = REQUEST_QUOTA + 1) =>
        hist.attempts = REQUEST_QUOTA

\* C5: with caching enabled, a run over at least one URL dumps exactly once,
\* not before the submission pass is over, so that when index() returns the
\* file holds the whole cache mapping.
C5_DumpOnceAtEnd ==
    (use_cache /\ run >= 1) =>
        /\ pc = "submitting" => hist.dumps = 0
        /\ (pc = "done" /\ urls # <<>>) =>
               hist.dumps = 1 /\ file = FileOf(status)

\* C6: results are merged into the record of the URL, so after a first run
\* from an empty cache the record of every URL whose notification result was
\* written holds its status and its last_notified_at.
C6_RecordsMerged ==
    (run = 1 /\ pc = "done" /\ hist.snapshot = <<>>) =>
        \A u \in hist.notif_written :
            {"status", "last_notified_at"} \subseteq
                DOMAIN DictGetOr(status, u, EmptyDict)

\* C7: no failure of a probe, network failures included, leaves index() as
\* an exception.
C7_ProbeFailureNeverAborts == ~(pc = "raised" /\ exc = "probe")

\* C8: when index() has returned and is called again at once with nothing
\* changed upstream, the second call makes no successful request_indexing
\* call and returns 0.
C8_SecondRunSubmitsNothing ==
    (run = 2 /\ pc = "done" /\ hist.after = "done") =>
        hist.successes = 0 /\ ret = 0

\* the batches of us: batch_size URLs each, in order, the last the remainder
ExpectedBatches(us) ==
    [j \in 1..((Len(us) + batch_size - 1) \div batch_size) |->
        SubSeq(us, (j - 1) * batch_size + 1,
               IF j * batch_size < Len(us) THEN j * batch_size ELSE Len(us))]

\* every URL of to_recheck has a record in the cache and is in the bucket
\* of a status this run obtained for it
AllRecorded ==
    \A u \in Range(to_recheck) :
        /\ HasKey(status, u)
        /\ \E p \in hist.seen :
              /\ p[1] = u
              /\ u \in Range(DictGetOr(status_urls_map, p[2], <<>>))

\* C9: once probing is over, the URLs needing a probe were probed in
\* ceil(N / batch_size) batches in list order, and each got one result,
\* recorded in the cache and in the bucket of its status.
C9_BatchIntegrity ==
    (run >= 1 /\ pc \notin {"idle", "probing"}) =>
        /\ hist.batches = ExpectedBatches(to_recheck)
        /\ hist.applied = Len(to_recheck)
        /\ AllRecorded

\* C10: get(url) of the status cache returns the record that was set or
\* loaded for url, and the empty value for an unknown url.
C10_GetReturnsWhatWasSet ==
    use_cache =>
        \A u \in DOMAIN inspect :
            cache_get(use_cache, status, u) = DictGetOr(status, u, EmptyDict)

\* ---------------------------------------------------------------- C11
\* C11: load() hydrates once: when index() calls load() on a StatusCache that
\* an earlier index() call already called load() on, the in-memory mapping
\* after the call is the mapping before it, whether or not the file existed
\* at the first call and whatever was set and dumped in between.
C11_LaterLoadIsNoOp ==
    [][(use_cache /\ run >= 1 /\ run' = run + 1) => hist'.snapshot = status]_vars

C13_SnapshotHasLastChecked ==
    /\ \A i \in DOMAIN results :
          /\ "last_checked" \in DOMAIN results[i]
          /\ results[i].last_checked = now
    /\ pc = "checked" =>
          \A i \in 1..Len(status) :
              status[i].k \in hist.probed => "last_checked" \in DOMAIN status[i].v

\* ---------------------------------------------------------------- C14
\* C14: for each eligible URL a pass of the submission loop calls
\* get_notification_status first and request_indexing only after that lookup
\* failed; the submitted-count goes up by one exactly when request_indexing
\* succeeded and stays when the lookup succeeded.
C14_LookupFirstCountOnPublish ==
    [][pc = "submitting" =>
         LET calls == hist'.calls
             published == \E i \in 1..Len(calls) :
                             calls[i].op = "request_indexing" /\ calls[i].ok
         IN  /\ to_submit[sub_i] \in hist'.looked_up
             /\ Len(calls) \in {1, 2}
             /\ calls[1].op = "get_notification_status"
             /\ Len(calls) = 2 =>
                   calls[2].op = "request_indexing" /\ ~calls[1].ok
             /\ calls[1].ok => ~published
             /\ num_submitted' = IF published THEN num_submitted + 1
                                 ELSE num_submitted]_vars

\* a pass ended in which one URL was found notified by the lookup and
\* another, whose lookup failed, was published
C14_Witness ==
    /\ pc = "done"
    /\ Cardinality(hist.looked_up) = 2
    /\ hist.attempts = 1
    /\ hist.successes = 1
    /\ num_submitted = 1

\* ---------------------------------------------------------------- C15
\* C15: if URL resolution yields no URLs (no sitemap is registered, or the
\* sitemaps or the cached key set yield no URL), index() ends the run
\* returning 0, without raising and without probing or submitting any URL.
C15_NoUrlsReturnsZero ==
    hist.resolved = "empty" =>
        /\ pc = "done"
        /\ exc = "none"
        /\ ret = 0
        /\ hist.probed = {}
        /\ hist.looked_up = {}
        /\ hist.attempts = 0

\* a call that took its URLs from the keys of the cache found none and ended
C15_Witness ==
    /\ hist.resolved = "empty"
    /\ use_cache /\ use_cached_urls
    /\ sitemaps # <<>>
    /\ pc = "done"

\* ---------------------------------------------------------------- C16
\* C16: constructing a BulkIndexer with neither a property nor a non-empty
\* URL list fails with ValueError before any I/O: the .cache directory and the
\* cache file are as they were, and no request was made to any API.
C16_ValueErrorBeforeIO ==
    [][(pc = "new" /\ ~property /\ urls = <<>>) =>
          /\ pc' = "failed"
          /\ exc' = "ValueError"
          /\ cache_dir' = cache_dir
          /\ file' = file
          /\ notified' = notified
          /\ hist' = hist
          /\ sitemaps' = sitemaps]_vars

\* the constructor failed where caching was asked for and .cache did not exist
C16_Witness ==
    /\ pc = "failed"
    /\ exc = "ValueError"
    /\ use_cache
    /\ ~cache_dir

\* ---------------------------------------------------------------- C17
\* C17: during probing at most batch_size probes are in flight, no probe of
\* the next batch starts before every probe of the current batch has completed,
\* and the cache mapping is written only between batches, never while a probe
\* is in flight.
C17_BatchesSerialised ==
    [][/\ Cardinality(pending') <= batch_size
       /\ Len(batch') <= batch_size
       /\ (batch' # batch /\ batch' # <<>>) => (pending = {} /\ batch = <<>>)
       /\ status' # status => (pending = {} /\ pending' = {})]_vars

\* the second batch is in flight, batch_size probes at once, after the
\* results of the first were written to the cache
C17_Witness ==
    /\ pc = "probing"
    /\ pos = batch_size + 1
    /\ Cardinality(pending) = batch_size
    /\ Len(status) = batch_size

\* ---------------------------------------------------------------- C18
\* occurrences of u in the buckets of m, and the bucket keys it occurs under
RECURSIVE BucketCount(_, _)
BucketCount(m, u) ==
    IF m = <<>> THEN 0
    ELSE Cardinality({j \in 1..Len(Head(m).v) : Head(m).v[j] = u})
         + BucketCount(Tail(m), u)

\* C18: the bucket map is built fresh in every run: at the start of the
\* submission pass of every index() call, a second call on the same
\* BulkIndexer included, it holds each URL of the run's URL universe exactly
\* as many times as the URL occurs in the URL list, under the status obtained
\* in this run, and no entry left from an earlier run.
C18_BucketMapFresh ==
    pc = "checked" =>
        /\ \A u \in Urls :
              BucketCount(status_urls_map, u) =
                  Cardinality({i \in 1..Len(urls) : urls[i] = u})
        /\ \A b \in 1..Len(status_urls_map) :
              \A j \in 1..Len(status_urls_map[b].v) :
                  <<status_urls_map[b].v[j], status_urls_map[b].k>> \in hist.seen

\* ---------------------------------------------------------------- C19
\* C19: if both get_notification_status and request_indexing fail for a URL,
\* the failure is absorbed: the submitted-count and the cache mapping are left
\* unchanged and the pass goes on to the next URL (or ends the call normally
\* after the last), so that every eligible URL of the run has been attempted
\* when the pass ends.
C19_DoubleFailureAbsorbed ==
    [][/\ (/\ pc = "submitting"
           /\ Len(hist'.calls) = 2
           /\ ~hist'.calls[1].ok
           /\ ~hist'.calls[2].ok)
          => /\ num_submitted' = num_submitted
             /\ status' = status
             /\ exc' = "none"
             /\ IF sub_i < Len(to_submit)
                  THEN pc' = "submitting" /\ sub_i' = sub_i + 1
                  ELSE pc' = "done" /\ ret' = num_submitted
       /\ (pc = "submitting" /\ pc' # "submitting")
          => /\ pc' = "done"
             /\ hist'.looked_up = Range(to_submit)]_vars

\* both calls failed for the first of two eligible URLs and the pass is at
\* the second
C19_Witness ==
    /\ pc = "submitting"
    /\ sub_i = 2
    /\ Len(hist.calls) = 2
    /\ ~hist.calls[1].ok
    /\ ~hist.calls[2].ok
    /\ hist.attempts = 1
    /\ hist.successes = 0

\* ---------------------------------------------------------------- C20
\* C20: with caching enabled, the recheck decision for a cached record at
\* time now is true exactly when the record is empty, or has no last_checked,
\* or its status is indexable, or now - last_checked is strictly greater than
\* 14 days: a "Forbidden" record checked within the hour is rechecked, a
\* non-indexable record checked exactly 14 days ago is not.
C20_RecheckDecision ==
    (fn_args.fn = "should_check" /\ fn_args.use_cache /\ fn_result # <<>>) =>
        LET record == fn_args.state
        IN  fn_result[1] =
              (\/ DOMAIN record = {}
               \/ "last_checked" \notin DOMAIN record
               \/ ("status" \in DOMAIN record /\
                     record.status \in INDEXABLE_STATUSES)
               \/ fn_args.now - record.last_checked > 14)

\* the decision was taken, and was not to recheck, for an "Indexed" record
\* checked exactly 14 days before
C20_Witness ==
    /\ fn_args.fn = "should_check"
    /\ fn_args.use_cache
    /\ DOMAIN fn_args.state = {"status", "last_checked"}
    /\ fn_args.state.status = "Indexed"
    /\ fn_args.now - fn_args.state.last_checked = 14
    /\ fn_result = <<FALSE>>

\* ---------------------------------------------------------------- C21
\* C21: the count index() reports is the number of URLs newly submitted by
\* that call: for every call in a sequence of calls on the same BulkIndexer,
\* the value returned equals the number of request_indexing calls that
\* succeeded during the call.
C21_ReturnsOwnSuccesses ==
    (pc = "done" /\ run >= 1) => ret = hist.successes

\* ---------------------------------------------------------------- C22
\* C22: when no explicit URLs are given and both caching and the reuse of
\* cached URLs are enabled, the URL universe a run processes is exactly the
\* key set of the loaded cache, and no sitemap content is fetched or parsed.
C22_CachedKeysAreUniverse ==
    (use_cache /\ use_cached_urls /\ hist.resolved \in {"urls", "empty"}) =>
        /\ Range(urls) = KeySet(hist.snapshot)
        /\ hist.fetched = 0

\* ---------------------------------------------------------------- C23
\* C23: if a run stops at any point after load() and before dump() is
\* reached (an exception raised while a batch is being probed, for example),
\* the cache file is what it was before the run started: no step of a call
\* that has not yet reached dump() changes the file.
C23_FileKeptUntilDump ==
    [][hist'.dumps = 0 => file' = file]_vars

\* a call raised while probing, before its dump(), with a cache file on disk
\* and a mapping in memory that differs from it
C23_Witness ==
    /\ pc = "raised"
    /\ exc = "probe"
    /\ use_cache
    /\ hist.dumps = 0
    /\ file.exists
    /\ status # pickle_load(file.data)

====
